---------------------------- MODULE Spec2Model ----------------------------
(***************************************************************************)
(* Model of the pico2-synth firmware: the KeyboardSynth voice allocator    *)
(* (src/src/keyboard.rs) and the double-buffered producer loop of main     *)
(* (src/src/main.rs).                                                      *)
(*                                                                         *)
(* Numbers.  An f32 is kept as its IEEE 754 binary32 bit pattern, a        *)
(* natural number; the frequencies and ratios of the synth are never       *)
(* negative, so the sign bit of a stored value is 0.  Products and sums    *)
(* are computed on (sign, 24-bit significand, exponent) and rounded to     *)
(* nearest, ties to even, as the hardware does; the values that occur are  *)
(* normal numbers (no subnormal, infinity or NaN arises from the inputs).  *)
(* Pitch-bend inputs are whole semitones.                                  *)
(***************************************************************************)
EXTENDS Integers, Sequences, FiniteSets, TLC

----------------------------------------------------------------------------
(* Program constants (keyboard.rs)                                         *)

KEY_COUNT == 12

VOICE_COUNT == 7

OCTAVE_COUNT == 4

VOICE_UNASSIGNED == 255

BEND_LIMIT == 12

\* 0.057762265f32
BEND_FACTOR == 1030527008

\* 1.0f32
RATIO_ONE == 1065353216

\* main.rs
BUFFER_SIZE == 480

\* SCAN_INTERVAL in microseconds
SCAN_INTERVAL == 250

\* main: the factor of get_sample(), the largest i16, the modulus of u16 and
\* the factor that copies the low half of a word into its high half.
SAMPLE_SCALE == 32767

I16_MAX == 32767

U16_MOD == 65536

DUP_FACTOR == 65537

\* 130.81, 138.59, 146.83, 155.56, 164.81, 174.61,
\* 185.00, 196.00, 207.65, 220.00, 233.08, 246.94 as f32
SEMITONE_FREQS ==
    <<1124257628, 1124767498, 1125307515, 1125879644, 1126485852, 1127128105,
      1127809024, 1128529920, 1129293414, 1130102784, 1130959995, 1131868324>>

Voices == 0 .. (VOICE_COUNT - 1)

Keys == 0 .. (KEY_COUNT - 1)

Octaves == 0 .. (OCTAVE_COUNT - 1)

----------------------------------------------------------------------------
(* Bounds of the environment                                               *)

\* Number of (key, octave) pairs whose pins the environment drives.
MaxNotes == 8

\* Number of steals after which the environment of Spec provokes no further steal.
MaxSteals == 2

\* Number of steals after which the environment of SpecRR provokes no further steal.
MaxStealsRR == 8

\* Number of keys the environment of SpecRR holds down at once.
MaxHeld == 1

\* Number of (key, octave) pairs whose pins are driven while main runs (SpecMain).
MaxPins == 2

\* Number of (key, octave) pairs whose pins are driven while main runs under
\* fair scheduling (SpecMainFair).
MaxPinsFair == 1

\* Number of (key, octave) pairs whose pins are driven while main runs with
\* keys down in several columns of several octaves (SpecScan).
MaxPinsScan == 3

\* Halves beyond the products of [-1.0, 1.0] that the sample conversion is
\* given, on either side (SpecPack).
PackSlack == 6

\* Microseconds by which one step of the clock advances it.
TickMicros == 125

----------------------------------------------------------------------------
(* Pure helpers                                                            *)

Pow2(n) == IF n = 0 THEN 1 ELSE IF n = 1 THEN 2 ELSE IF n = 2 THEN 4
           ELSE IF n = 3 THEN 8 ELSE IF n = 4 THEN 16 ELSE IF n = 5 THEN 32
           ELSE IF n = 6 THEN 64 ELSE 128

\* encode_note with the key masked to three bits.
encode_note_narrow(key, octave) == ((octave * 16) % 256) + (key % 8)

\* (octave << 4) | (key & 0x0F) on u8: the shift drops the bits above bit 7,
\* and the two operands of | have no bit in common.
encode_note(key, octave) == ((octave * 16) % 256) + (key % 16)

\* 1 << octave as u8 (octave < 8).
octave_mult(octave) == Pow2(octave)

\* The weight of the hidden bit of a binary32 significand.
F32_HIDDEN == 2^23

\* The value of a bit pattern with sign bit 0: (-1)^neg * m * 2^e.
F32Unpack(bits) ==
    IF bits = 0
    THEN [neg |-> FALSE, m |-> 0, e |-> 0]
    ELSE [neg |-> FALSE,
          m |-> F32_HIDDEN + (bits % F32_HIDDEN),
          e |-> (bits \div F32_HIDDEN) - 150]

\* The bit pattern of a value that is not negative.
F32Pack(x) ==
    IF x.m = 0 THEN 0 ELSE (x.e + 150) * F32_HIDDEN + (x.m - F32_HIDDEN)

\* n as f32, for an integer of less than 24 bits: exact.
F32FromInt(n) ==
    LET a == IF n < 0 THEN -n ELSE n
        k == IF a < 2 THEN 23 ELSE IF a < 4 THEN 22 ELSE IF a < 8 THEN 21
             ELSE IF a < 16 THEN 20
             ELSE CHOOSE j \in 0 .. 19 : 2^(23 - j) <= a /\ a < 2^(24 - j)
    IN  IF n = 0
        THEN [neg |-> FALSE, m |-> 0, e |-> 0]
        ELSE [neg |-> n < 0, m |-> a * 2^k, e |-> -k]

\* Round q + r / (2 * half) to nearest, ties to even, at exponent e.
F32Round(neg, q, r, half, e) ==
    LET up == r > half \/ (r = half /\ q % 2 = 1)
        m1 == IF up THEN q + 1 ELSE q
    IN  IF m1 = 2 * F32_HIDDEN
        THEN [neg |-> neg, m |-> F32_HIDDEN, e |-> e + 1]
        ELSE [neg |-> neg, m |-> m1, e |-> e]

\* a * b on f32: the 48-bit product of the significands, in 12-bit limbs,
\* rounded to 24 bits.
F32Mul(a, b) ==
    LET ah == a.m \div 4096
        al == a.m % 4096
        bh == b.m \div 4096
        bl == b.m % 4096
        cross == ah * bl + al * bh
        low == (cross % 4096) * 4096 + al * bl
        lo == low % (2 * F32_HIDDEN)
        hi == ah * bh + (cross \div 4096) + (low \div (2 * F32_HIDDEN))
        neg == a.neg # b.neg
    IN  IF a.m = 0 \/ b.m = 0
        THEN [neg |-> FALSE, m |-> 0, e |-> 0]
        ELSE IF hi >= F32_HIDDEN
             THEN F32Round(neg, hi, lo, F32_HIDDEN, a.e + b.e + 24)
             ELSE F32Round(neg, 2 * hi + (lo \div F32_HIDDEN), lo % F32_HIDDEN,
                           F32_HIDDEN \div 2, a.e + b.e + 23)

\* a + b on f32: the operand of smaller magnitude is aligned with three
\* extra bits, the last one sticky, and the sum is rounded to 24 bits.
F32Add(a, b) ==
    LET a_big == a.e > b.e \/ (a.e = b.e /\ a.m >= b.m)
        big == IF a_big THEN a ELSE b
        small == IF a_big THEN b ELSE a
        d == big.e - small.e
        q == (small.m * 8) \div 2^d
        aligned == IF d > 26 THEN 1
                   ELSE IF (small.m * 8) % 2^d # 0 /\ q % 2 = 0 THEN q + 1 ELSE q
        sum == IF big.neg = small.neg THEN big.m * 8 + aligned ELSE big.m * 8 - aligned
        k == IF sum >= 2^27 THEN 4 ELSE IF sum >= 2^26 THEN 3 ELSE IF sum >= 2^25 THEN 2
             ELSE CHOOSE j \in -23 .. 1 : 2^(23 + j) <= sum /\ sum < 2^(24 + j)
    IN  IF a.m = 0 THEN b
        ELSE IF b.m = 0 THEN a
        ELSE IF sum = 0 THEN [neg |-> FALSE, m |-> 0, e |-> 0]
        ELSE IF k > 0
             THEN F32Round(big.neg, sum \div 2^k, sum % 2^k, 2^(k - 1), big.e - 3 + k)
             ELSE [neg |-> big.neg, m |-> sum * 2^(-k), e |-> big.e - 3 + k]

\* 0.0f32
FZero == 0

\* ratio = 1.0 + bend * BEND_FACTOR
BendRatio(bend) ==
    F32Pack(F32Add(F32Unpack(RATIO_ONE), F32Mul(F32FromInt(bend), F32Unpack(BEND_FACTOR))))

\* a * b on f32 for two normal numbers that are not negative, on bit
\* patterns: F32Pack(F32Mul(F32Unpack(a), F32Unpack(b))) written out.  The
\* 48-bit product of the significands is hi * 2^24 + lo; a carry out of the
\* rounded significand runs into the exponent field.
FMul(a, b) ==
    LET ma == F32_HIDDEN + (a % F32_HIDDEN)
        mb == F32_HIDDEN + (b % F32_HIDDEN)
        cross == (ma \div 4096) * (mb % 4096) + (ma % 4096) * (mb \div 4096)
        low == (cross % 4096) * 4096 + (ma % 4096) * (mb % 4096)
        hi == (ma \div 4096) * (mb \div 4096) + (cross \div 4096) + (low \div 16777216)
        lo == low % 16777216
        e == (a \div F32_HIDDEN) + (b \div F32_HIDDEN) - 127
    IN  IF a = 0 \/ b = 0 THEN 0
        ELSE IF hi >= F32_HIDDEN
        THEN (e + 1) * F32_HIDDEN + (hi - F32_HIDDEN)
                + (IF lo > F32_HIDDEN \/ (lo = F32_HIDDEN /\ hi % 2 = 1) THEN 1 ELSE 0)
        ELSE e * F32_HIDDEN + (2 * hi + (lo \div F32_HIDDEN) - F32_HIDDEN)
                + (IF lo % F32_HIDDEN > 4194304
                      \/ (lo % F32_HIDDEN = 4194304 /\ (lo \div F32_HIDDEN) % 2 = 1)
                   THEN 1 ELSE 0)

\* n as f32 for an octave multiplier n.
MultAsF32(n) == F32Pack(F32FromInt(n))

BendLegal(bend) == bend >= -BEND_LIMIT /\ bend <= BEND_LIMIT

----------------------------------------------------------------------------
(* State                                                                   *)

VARIABLES
    voice_note,     \* KeyboardSynth.voice_note : [Voices -> u8]
    base_freqs,     \* KeyboardSynth.base_freqs : [Voices -> f32 bits]
    freqs,          \* KeyboardSynth.freqs (Shared values) : [Voices -> f32 bits]
    gates,          \* KeyboardSynth.gates (Shared values) : [Voices -> {0, 1}]
    next_voice,     \* KeyboardSynth.next_voice
    key_states,     \* KeyboardSynth.key_states : [Octaves -> [Keys -> BOOLEAN]]
    pitch_bend,     \* KeyboardSynth.pitch_bend (Shared value), f32 bits
    panicked,       \* an assert! has failed: the firmware has halted
    steal_log,      \* history: the slot evicted by each steal so far, in order
    last_event,     \* history: polarity of the last event emitted per (octave, key)
    touched,        \* history: number of driven notes pressed at least once
    last_kind,      \* history: what the last state-changing call did
    pc,             \* main: the statement of the producer loop to run next
    back_buffer,    \* main: the half of dma_buffer that back_buffer refers to
    front_buffer,   \* main: the half of dma_buffer that front_buffer refers to
    inflight,       \* the buffers of the DMA transfers started and not yet complete
    fill_i,         \* main: index of the next slot the fill loop writes
    fresh,          \* per buffer: slots written since its transfer was last started
    elapsed,        \* last_scan.elapsed() in microseconds, saturating at SCAN_INTERVAL
    octave_en,      \* the octave select outputs: TRUE is High (disabled)
    scan_octave,    \* main: the octave of the scan loop
    scan_key,       \* main: the key of the scan loop
    busy_pin,       \* main: the level of busy_pin (TRUE is High)
    cur_sent,       \* history: the buffer handed to i2s.write in this cycle
    cur_filled,     \* history: the buffer the fill loop wrote in this cycle
    prev_sent,      \* history: cur_sent of the previous cycle
    prev_filled,    \* history: cur_filled of the previous cycle
    pass_calls,     \* history: <<octave, key>> of each update_key call of the scan pass under way
    pass_events,    \* history: <<octave, key, pressed>> of each event of the scan pass under way
    scans_in_cycle, \* history: scan passes begun in this cycle
    due_at_fill_start, \* history: the scan timer had expired when this cycle's first sample was written
    enc_a,          \* encode_note: a first (key, octave)
    enc_b,          \* encode_note: a second (key, octave)
    enc_out,        \* encode_note: the NoteIds of enc_a and enc_b, once computed
    pk_x,           \* sample packing: get_sample() * 32767.0, in halves
    pk_out          \* sample packing: the sample and the DMA word made of pk_x, once computed

synth_vars == <<voice_note, base_freqs, freqs, gates, next_voice, key_states, pitch_bend>>

hist_vars == <<steal_log, last_event, touched, last_kind>>

main_vars == <<pc, back_buffer, front_buffer, inflight, fill_i, fresh, elapsed,
               octave_en, scan_octave, scan_key, busy_pin>>

cycle_vars == <<cur_sent, cur_filled, prev_sent, prev_filled>>

pass_vars == <<pass_calls, pass_events, scans_in_cycle, due_at_fill_start>>

enc_vars == <<enc_a, enc_b, enc_out, pk_x, pk_out>>

vars == <<synth_vars, panicked, hist_vars, main_vars, cycle_vars, pass_vars, enc_vars>>

\* The KeyboardSynth value held in the variables.
Synth ==
    [ voice_note |-> voice_note,
      base_freqs |-> base_freqs,
      freqs      |-> freqs,
      gates      |-> gates,
      next_voice |-> next_voice,
      key_states |-> key_states,
      pitch_bend |-> pitch_bend ]

\* KeyboardSynth::new (the fields the audio graph does not own).
new ==
    [ voice_note |-> [v \in Voices |-> VOICE_UNASSIGNED],
      base_freqs |-> [v \in Voices |-> 0],
      freqs      |-> [v \in Voices |-> FZero],
      gates      |-> [v \in Voices |-> 0],
      next_voice |-> 0,
      key_states |-> [o \in Octaves |-> [k \in Keys |-> FALSE]],
      pitch_bend |-> RATIO_ONE ]

----------------------------------------------------------------------------
(* KeyboardSynth operations, as functions from state to state              *)

\* A search loop "for voice in 0..VOICE_COUNT { if voice_note[voice] == n ..."
\* taken from the highest voice down.
LastVoiceWith(s, n) ==
    IF \E v \in Voices : s.voice_note[v] = n
    THEN CHOOSE v \in Voices :
            /\ s.voice_note[v] = n
            /\ \A w \in Voices : w > v => s.voice_note[w] # n
    ELSE VOICE_COUNT

\* The search loops of handle_key_change: the first voice, in ascending order,
\* whose note is n; VOICE_COUNT if the loop ends without a match.
FirstVoiceWith(s, n) ==
    IF \E v \in Voices : s.voice_note[v] = n
    THEN CHOOSE v \in Voices :
            /\ s.voice_note[v] = n
            /\ \A w \in Voices : w < v => s.voice_note[w] # n
    ELSE VOICE_COUNT

\* allocate_voice that ignores the bend in force.
allocate_voice_unbent(s, voice, note, key, mult) ==
    LET base_freq == FMul(SEMITONE_FREQS[key + 1], MultAsF32(mult))
    IN  [s EXCEPT !.voice_note[voice] = note,
                  !.base_freqs[voice] = base_freq,
                  !.freqs[voice] = FMul(base_freq, RATIO_ONE),
                  !.gates[voice] = 1]

allocate_voice(s, voice, note, key, mult) ==
    LET base_freq == FMul(SEMITONE_FREQS[key + 1], MultAsF32(mult))
        bent_freq == FMul(base_freq, s.pitch_bend)
    IN  [s EXCEPT !.voice_note[voice] = note,
                  !.base_freqs[voice] = base_freq,
                  !.freqs[voice] = bent_freq,
                  !.gates[voice] = 1]

\* A retrigger that also moves the steal cursor.
retrigger_advancing(s, voice) ==
    [s EXCEPT !.gates[voice] = 1, !.next_voice = (s.next_voice + 1) % VOICE_COUNT]

\* self.gates[voice].set_value(1.0); return;
retrigger(s, voice) == [s EXCEPT !.gates[voice] = 1]

\* A release that leaves the gate as it is.
release_silent(s, voice) == s

\* A release that returns the voice to the unassigned state.
release_freeing(s, voice) ==
    [s EXCEPT !.gates[voice] = 0, !.voice_note[voice] = VOICE_UNASSIGNED]

\* self.gates[voice].set_value(0.0); break;
release(s, voice) == [s EXCEPT !.gates[voice] = 0]

\* A cursor that stays where it is.
advance_stuck(nv) == nv

\* (self.next_voice + 1) % VOICE_COUNT
advance(nv) == (nv + 1) % VOICE_COUNT

\* handle_key_change without the search for a voice that already has the note.
handle_key_change_no_retrigger(s, key, octave, pressed) ==
    LET note == encode_note(key, octave)
        mult == octave_mult(octave)
        held == FirstVoiceWith(s, note)
        free == FirstVoiceWith(s, VOICE_UNASSIGNED)
    IN  IF pressed
        THEN IF free < VOICE_COUNT
             THEN allocate_voice(s, free, note, key, mult)
             ELSE allocate_voice(
                     [s EXCEPT !.next_voice = advance(s.next_voice)],
                     s.next_voice, note, key, mult)
        ELSE IF held < VOICE_COUNT
             THEN release(s, held)
             ELSE s

handle_key_change(s, key, octave, pressed) ==
    LET note == encode_note(key, octave)
        mult == octave_mult(octave)
        held == FirstVoiceWith(s, note)
        free == FirstVoiceWith(s, VOICE_UNASSIGNED)
    IN  IF pressed
        THEN IF held < VOICE_COUNT
             THEN retrigger(s, held)
             ELSE IF free < VOICE_COUNT
             THEN allocate_voice(s, free, note, key, mult)
             ELSE allocate_voice(
                     [s EXCEPT !.next_voice = advance(s.next_voice)],
                     s.next_voice, note, key, mult)
        ELSE IF held < VOICE_COUNT
             THEN release(s, held)
             ELSE s

\* The edge test of update_key: the call handles a key change.
key_changed(s, key, octave, pressed) == pressed # s.key_states[octave][key]

\* update_key that does not record the level it has seen.
update_key_no_store(s, key, octave, pressed) ==
    IF key_changed(s, key, octave, pressed)
    THEN handle_key_change(s, key, octave, pressed)
    ELSE s

update_key(s, key, octave, pressed) ==
    IF key_changed(s, key, octave, pressed)
    THEN handle_key_change(
            [s EXCEPT !.key_states[octave][key] = pressed], key, octave, pressed)
    ELSE s

\* set_pitch_bend with the assert! after the updates.
set_pitch_bend_late_assert(s, bend) ==
    LET ratio == BendRatio(bend)
    IN  [panic |-> ~BendLegal(bend),
         synth |-> [s EXCEPT
             !.pitch_bend = ratio,
             !.freqs = [v \in Voices |->
                           IF s.voice_note[v] # VOICE_UNASSIGNED
                           THEN FMul(s.base_freqs[v], ratio)
                           ELSE s.freqs[v]]]]

\* set_pitch_bend that re-tunes only the voices whose gate is high.
set_pitch_bend_gated_only(s, bend) ==
    LET ratio == BendRatio(bend)
    IN  IF ~BendLegal(bend)
        THEN [panic |-> TRUE, synth |-> s]
        ELSE [panic |-> FALSE,
              synth |-> [s EXCEPT
                  !.pitch_bend = ratio,
                  !.freqs = [v \in Voices |->
                                IF s.gates[v] = 1
                                THEN FMul(s.base_freqs[v], ratio)
                                ELSE s.freqs[v]]]]

\* set_pitch_bend: the assert! comes first; a failed assert! panics (the
\* firmware halts) with the synth as it was.
set_pitch_bend(s, bend) ==
    LET ratio == BendRatio(bend)
    IN  IF ~BendLegal(bend)
        THEN [panic |-> TRUE, synth |-> s]
        ELSE [panic |-> FALSE,
              synth |-> [s EXCEPT
                  !.pitch_bend = ratio,
                  !.freqs = [v \in Voices |->
                                IF s.voice_note[v] # VOICE_UNASSIGNED
                                THEN FMul(s.base_freqs[v], ratio)
                                ELSE s.freqs[v]]]]

----------------------------------------------------------------------------
(* What a call does, read off the state before it (used by the history     *)
(* variables and by the properties, not by the operations).                *)

Holds(s, note) == \E v \in Voices : s.voice_note[v] = note

HasFree(s) == \E v \in Voices : s.voice_note[v] = VOICE_UNASSIGNED

KindOf(s, key, octave, pressed) ==
    IF ~key_changed(s, key, octave, pressed) THEN "no_edge"
    ELSE IF pressed
         THEN IF Holds(s, encode_note(key, octave)) THEN "retrigger"
              ELSE IF HasFree(s) THEN "free" ELSE "steal"
         ELSE IF Holds(s, encode_note(key, octave)) THEN "release" ELSE "release_miss"

----------------------------------------------------------------------------
(* Environment of the synth: the notes it drives                           *)

NoteIdx == 0 .. (MaxNotes - 1)

\* The i-th driven pin: key-major, so that one key is driven in every octave.
DrivenKey(i) == i \div OCTAVE_COUNT

DrivenOctave(i) == i % OCTAVE_COUNT

BendInputs == {-(BEND_LIMIT + 1), -BEND_LIMIT, 0, BEND_LIMIT, BEND_LIMIT + 1}

SetSynth(s) ==
    /\ voice_note' = s.voice_note
    /\ base_freqs' = s.base_freqs
    /\ freqs' = s.freqs
    /\ gates' = s.gates
    /\ next_voice' = s.next_voice
    /\ key_states' = s.key_states
    /\ pitch_bend' = s.pitch_bend

\* The two halves of dma_buffer that split_at_mut(BUFFER_SIZE) returns.
Buffers == {"first", "second"}

NoBuffer == "none"

\* The firmware when main reaches its loop.
Constructed ==
    /\ voice_note = new.voice_note
    /\ base_freqs = new.base_freqs
    /\ freqs = new.freqs
    /\ gates = new.gates
    /\ next_voice = new.next_voice
    /\ key_states = new.key_states
    /\ pitch_bend = new.pitch_bend
    /\ panicked = FALSE
    /\ steal_log = <<>>
    /\ last_event = [o \in Octaves |-> [k \in Keys |-> "none"]]
    /\ touched = 0
    /\ last_kind = "new"
    /\ pc = "write"
    /\ back_buffer = "first"
    /\ front_buffer = "second"
    /\ inflight = <<>>
    /\ fill_i = 0
    /\ fresh = [b \in Buffers |-> 0]
    /\ elapsed = 0
    /\ octave_en = [o \in Octaves |-> TRUE]
    /\ scan_octave = 0
    /\ scan_key = 0
    /\ busy_pin = FALSE
    /\ cur_sent = NoBuffer
    /\ cur_filled = NoBuffer
    /\ prev_sent = NoBuffer
    /\ prev_filled = NoBuffer
    /\ pass_calls = <<>>
    /\ pass_events = <<>>
    /\ scans_in_cycle = 0
    /\ due_at_fill_start = FALSE

Init ==
    /\ Constructed
    /\ enc_a = <<0, 0>>
    /\ enc_b = <<0, 0>>
    /\ enc_out = <<>>
    /\ pk_x = 0
    /\ pk_out = <<>>

\* synth.update_key(key, octave, pressed), with the history variables.
CallUpdateKey(key, octave, pressed) ==
    LET kind == KindOf(Synth, key, octave, pressed)
        s1   == update_key(Synth, key, octave, pressed)
    IN  /\ SetSynth(s1)
        /\ steal_log' = IF kind = "steal"
                        THEN Append(steal_log,
                                {v \in Voices : s1.voice_note[v] # voice_note[v]})
                        ELSE steal_log
        /\ last_event' = IF kind # "no_edge"
                         THEN [last_event EXCEPT ![octave][key] =
                                  IF pressed THEN "press" ELSE "release"]
                         ELSE last_event
        /\ last_kind' = IF kind = "no_edge" THEN last_kind ELSE kind
        /\ UNCHANGED panicked

\* The call for the i-th driven pin.
CallDriven(i, pressed) ==
    /\ CallUpdateKey(DrivenKey(i), DrivenOctave(i), pressed)
    /\ touched' = IF pressed /\ i = touched THEN touched + 1 ELSE touched
    /\ UNCHANGED <<main_vars, cycle_vars, pass_vars, enc_vars>>

WouldSteal(i, pressed) ==
    KindOf(Synth, DrivenKey(i), DrivenOctave(i), pressed) = "steal"

HeldCount ==
    Cardinality({j \in NoteIdx : key_states[DrivenOctave(j)][DrivenKey(j)]})

\* The environment of Spec: any driven pin at any level.  Notes are pressed for
\* the first time in ascending order (the allocator only compares notes for
\* equality, so the order of first presses is immaterial), and no steal is
\* provoked after MaxSteals steals.
UpdateKey(i, pressed) ==
    /\ ~panicked
    /\ i <= touched
    /\ WouldSteal(i, pressed) => Len(steal_log) < MaxSteals
    /\ CallDriven(i, pressed)

\* The environment of SpecRR: at most MaxHeld keys down at once, which leaves
\* room for MaxStealsRR steals (more than one turn of the cursor).
UpdateKeyRR(i, pressed) ==
    /\ ~panicked
    /\ i <= touched
    /\ WouldSteal(i, pressed) => Len(steal_log) < MaxStealsRR
    /\ (pressed /\ ~key_states[DrivenOctave(i)][DrivenKey(i)]) => HeldCount < MaxHeld
    /\ CallDriven(i, pressed)

\* synth.set_pitch_bend(bend)
SetPitchBend(bend) ==
    LET r == set_pitch_bend(Synth, bend)
    IN  /\ ~panicked
        /\ SetSynth(r.synth)
        /\ panicked' = r.panic
        /\ last_kind' = IF r.panic THEN "bend_rejected" ELSE "bend"
        /\ UNCHANGED <<steal_log, last_event, touched, main_vars, cycle_vars,
                       pass_vars, enc_vars>>

Next ==
    \/ \E i \in NoteIdx, pressed \in BOOLEAN : UpdateKey(i, pressed)
    \/ \E bend \in BendInputs : SetPitchBend(bend)

Spec == Init /\ [][Next]_vars

NextRR ==
    \/ \E i \in NoteIdx, pressed \in BOOLEAN : UpdateKeyRR(i, pressed)
    \/ \E bend \in BendInputs : SetPitchBend(bend)

SpecRR == Init /\ [][NextRR]_vars

----------------------------------------------------------------------------
(* The producer loop of main (main.rs 168-222) and the DMA engine          *)

\* No swap.
swap_none(b, f) == [back |-> b, front |-> f]

\* mem::swap(&mut back_buffer, &mut front_buffer)
swap(b, f) == [back |-> f, front |-> b]

\* A wait that no completion ends.
transfer_done_never(fl) == FALSE

\* An await that returns at once.
transfer_done_always(fl) == TRUE

\* dma_future.await returns once the transfer it stands for has completed.
transfer_done(fl) == fl = <<>>

\* A timer test that always passes.
scan_due_always(e) == TRUE

\* last_scan.elapsed() >= SCAN_INTERVAL
scan_due(e) == e >= SCAN_INTERVAL

\* The pin of key reads low while octave is enabled only if the key is down;
\* the environment holds down keys among the first n driven pins only.
PinLevelsAmong(n, key, octave) ==
    IF \E i \in 0 .. (n - 1) : DrivenKey(i) = key /\ DrivenOctave(i) = octave
    THEN BOOLEAN
    ELSE {FALSE}

PinLevels(key, octave) == PinLevelsAmong(MaxPins, key, octave)

synth_frame == <<synth_vars, panicked, hist_vars, enc_vars>>

\* let dma_future = i2s.write(front_buffer); busy_pin.set_high();
StartTransfer ==
    /\ pc = "write"
    /\ inflight' = Append(inflight, front_buffer)
    /\ fresh' = [fresh EXCEPT ![front_buffer] = 0]
    /\ busy_pin' = TRUE
    /\ cur_sent' = front_buffer
    /\ pc' = "check"
    /\ UNCHANGED <<synth_frame, back_buffer, front_buffer, fill_i, elapsed,
                   octave_en, scan_octave, scan_key, cur_filled, prev_sent, prev_filled,
                   pass_vars>>

\* if last_scan.elapsed() >= SCAN_INTERVAL { last_scan = Instant::now(); ...
CheckTimer ==
    /\ pc = "check"
    /\ IF scan_due(elapsed)
       THEN /\ elapsed' = 0
            /\ scan_octave' = 0
            /\ pc' = "enable"
            /\ scans_in_cycle' = scans_in_cycle + 1
            /\ UNCHANGED fill_i
       ELSE /\ fill_i' = 0
            /\ pc' = "fill"
            /\ UNCHANGED <<elapsed, scan_octave, scans_in_cycle>>
    /\ UNCHANGED <<synth_frame, back_buffer, front_buffer, inflight, fresh,
                   octave_en, scan_key, busy_pin, cycle_vars,
                   pass_calls, pass_events, due_at_fill_start>>

\* A set_low that leaves the line as it is.
set_low_none(en, o) == en

\* octaveo_en.set_low()
set_low(en, o) == [en EXCEPT ![o] = FALSE]

\* A set_high that leaves the line as it is.
set_high_none(en, o) == en

\* octaveo_en.set_high()
set_high(en, o) == [en EXCEPT ![o] = TRUE]

\* A key loop that runs from the last key down.
key_at_descending(n) == KEY_COUNT - 1 - n

\* for key in 0..keyboard::KEY_COUNT: the key of the n-th iteration.
key_at(n) == n

\* A slice one slot short.
buffer_len_short(b) == BUFFER_SIZE - 1

\* The length of either half of dma_buffer after split_at_mut(BUFFER_SIZE).
buffer_len(b) == BUFFER_SIZE

\* match octave { o => octaveo_en.set_low() }
EnableOctave ==
    /\ pc = "enable"
    /\ octave_en' = set_low(octave_en, scan_octave)
    /\ scan_key' = 0
    /\ pc' = "read"
    /\ UNCHANGED <<synth_frame, back_buffer, front_buffer, inflight, fill_i, fresh,
                   elapsed, scan_octave, busy_pin, cycle_vars, pass_vars>>

\* let pressed = inputs[key].is_low(); synth.update_key(key, octave, pressed);
\* with the pin reading one of levels.
ReadKeyFrom(levels) ==
    /\ pc = "read"
    /\ \E pressed \in levels :
            /\ CallUpdateKey(key_at(scan_key), scan_octave, pressed)
            /\ pass_events' =
                  IF KindOf(Synth, key_at(scan_key), scan_octave, pressed) # "no_edge"
                  THEN Append(pass_events, <<scan_octave, key_at(scan_key), pressed>>)
                  ELSE pass_events
    /\ pass_calls' = Append(pass_calls, <<scan_octave, key_at(scan_key)>>)
    /\ IF scan_key + 1 < KEY_COUNT
       THEN scan_key' = scan_key + 1 /\ pc' = "read"
       ELSE scan_key' = scan_key /\ pc' = "disable"
    /\ UNCHANGED <<back_buffer, front_buffer, inflight, fill_i, fresh,
                   elapsed, octave_en, scan_octave, busy_pin, cycle_vars,
                   scans_in_cycle, due_at_fill_start, enc_vars>>

ReadKeyAmong(n) ==
    /\ ReadKeyFrom(PinLevelsAmong(n, key_at(scan_key), scan_octave))
    /\ UNCHANGED touched

ReadKey == ReadKeyAmong(MaxPins)

\* match octave { o => octaveo_en.set_high() }, then the next octave or the fill loop
DisableOctave ==
    /\ pc = "disable"
    /\ octave_en' = set_high(octave_en, scan_octave)
    /\ IF scan_octave + 1 < OCTAVE_COUNT
       THEN /\ scan_octave' = scan_octave + 1
            /\ pc' = "enable"
            /\ UNCHANGED <<fill_i, pass_calls, pass_events>>
       ELSE /\ scan_octave' = scan_octave
            /\ pc' = "fill"
            /\ fill_i' = 0
            /\ pass_calls' = <<>>
            /\ pass_events' = <<>>
    /\ UNCHANGED <<synth_frame, back_buffer, front_buffer, inflight, fresh,
                   elapsed, scan_key, busy_pin, cycle_vars,
                   scans_in_cycle, due_at_fill_start>>

\* One iteration of: for s in back_buffer.iter_mut() { *s = ... }; after the
\* last one, busy_pin.set_low().
FillSample ==
    /\ pc = "fill"
    /\ fill_i < buffer_len(back_buffer)
    /\ fresh' = [fresh EXCEPT ![back_buffer] = fill_i + 1]
    /\ cur_filled' = back_buffer
    /\ fill_i' = fill_i + 1
    /\ due_at_fill_start' =
          IF fill_i = 0 THEN elapsed >= SCAN_INTERVAL ELSE due_at_fill_start
    /\ IF fill_i + 1 < buffer_len(back_buffer)
       THEN pc' = "fill" /\ UNCHANGED busy_pin
       ELSE pc' = "await" /\ busy_pin' = FALSE
    /\ UNCHANGED <<synth_frame, back_buffer, front_buffer, inflight, elapsed,
                   octave_en, scan_octave, scan_key, cur_sent, prev_sent, prev_filled,
                   pass_calls, pass_events, scans_in_cycle>>

\* dma_future.await
AwaitTransfer ==
    /\ pc = "await"
    /\ transfer_done(inflight)
    /\ pc' = "swap"
    /\ UNCHANGED <<synth_frame, back_buffer, front_buffer, inflight, fill_i, fresh,
                   elapsed, octave_en, scan_octave, scan_key, busy_pin, cycle_vars,
                   pass_vars>>

\* mem::swap(&mut back_buffer, &mut front_buffer); and around the loop
SwapBuffers ==
    /\ pc = "swap"
    /\ back_buffer' = swap(back_buffer, front_buffer).back
    /\ front_buffer' = swap(back_buffer, front_buffer).front
    /\ prev_sent' = cur_sent
    /\ prev_filled' = cur_filled
    /\ cur_sent' = NoBuffer
    /\ cur_filled' = NoBuffer
    /\ pc' = "write"
    /\ scans_in_cycle' = 0
    /\ due_at_fill_start' = FALSE
    /\ UNCHANGED <<synth_frame, inflight, fill_i, fresh, elapsed, octave_en,
                   scan_octave, scan_key, busy_pin, pass_calls, pass_events>>

\* The DMA engine finishes the oldest transfer in flight.
DmaComplete ==
    /\ inflight # <<>>
    /\ inflight' = Tail(inflight)
    /\ UNCHANGED <<synth_frame, pc, back_buffer, front_buffer, fill_i, fresh, elapsed,
                   octave_en, scan_octave, scan_key, busy_pin, cycle_vars, pass_vars>>

\* Time passes.
Tick ==
    /\ elapsed < SCAN_INTERVAL
    /\ elapsed' = IF elapsed + TickMicros < SCAN_INTERVAL
                  THEN elapsed + TickMicros ELSE SCAN_INTERVAL
    /\ UNCHANGED <<synth_frame, pc, back_buffer, front_buffer, inflight, fill_i, fresh,
                   octave_en, scan_octave, scan_key, busy_pin, cycle_vars, pass_vars>>

NextMain ==
    \/ StartTransfer
    \/ CheckTimer
    \/ EnableOctave
    \/ ReadKey
    \/ DisableOctave
    \/ FillSample
    \/ AwaitTransfer
    \/ SwapBuffers
    \/ DmaComplete
    \/ Tick

SpecMain == Init /\ [][NextMain]_vars

----------------------------------------------------------------------------
(* The producer loop with keys down in several columns of two octaves      *)

ScanPinIdx == 0 .. (MaxPinsScan - 1)

\* The i-th pin driven under SpecScan, in the order the scan reads them: keys
\* 5 and 11 of octave 0, then keys 2 and 8 of octave 1, so that keys of the
\* lower octave have the higher index.
ScanPinKey(i) == (5 + 6 * (i % 2) + 9 * (i \div 2)) % KEY_COUNT

ScanPinOctave(i) == (i \div 2) % OCTAVE_COUNT

\* The pin of key reads low while octave is enabled only if the key is down.
\* The driven keys go down for the first time in the order of their pins (as
\* under Spec); after that each goes up and down freely.
ScanPinLevels(key, octave) ==
    IF \E i \in ScanPinIdx :
          i <= touched /\ ScanPinKey(i) = key /\ ScanPinOctave(i) = octave
    THEN BOOLEAN
    ELSE {FALSE}

ReadKeyScan ==
    /\ ReadKeyFrom(ScanPinLevels(key_at(scan_key), scan_octave))
    /\ touched' =
          IF /\ touched \in ScanPinIdx
             /\ ScanPinKey(touched) = key_at(scan_key)
             /\ ScanPinOctave(touched) = scan_octave
             /\ key_states'[scan_octave][key_at(scan_key)]
          THEN touched + 1
          ELSE touched

NextScan ==
    \/ StartTransfer
    \/ CheckTimer
    \/ EnableOctave
    \/ ReadKeyScan
    \/ DisableOctave
    \/ FillSample
    \/ AwaitTransfer
    \/ SwapBuffers
    \/ DmaComplete
    \/ Tick

SpecScan == Init /\ [][NextScan]_vars

----------------------------------------------------------------------------
(* encode_note on its own: two (key, octave) pairs of the supported ranges  *)

KeyOctave == Keys \X Octaves

InitEncode ==
    /\ Constructed
    /\ enc_a \in KeyOctave
    /\ enc_b \in KeyOctave
    /\ enc_out = <<>>
    /\ pk_x = 0
    /\ pk_out = <<>>

\* let note = encode_note(key as u8, octave), for both pairs.
Encode ==
    /\ enc_out = <<>>
    /\ enc_out' = <<encode_note(enc_a[1], enc_a[2]), encode_note(enc_b[1], enc_b[2])>>
    /\ UNCHANGED <<synth_vars, panicked, hist_vars, main_vars, cycle_vars, pass_vars,
                   enc_a, enc_b, pk_x, pk_out>>

NextEncode == Encode

SpecEncode == InitEncode /\ [][NextEncode]_vars

----------------------------------------------------------------------------
(* The sample conversion of the fill loop on its own                       *)

\* The f32 product get_sample() * 32767.0 is kept in halves: h stands for
\* h / 2, so that products with a fraction are among the inputs.

\* (x) as i16 of a float: the fraction is dropped (towards zero) and a value
\* out of range becomes the nearest bound.
to_i16(h) ==
    LET q == IF h >= 0 THEN h \div 2 ELSE -((-h) \div 2)
    IN  IF q > I16_MAX THEN I16_MAX
        ELSE IF q < -(I16_MAX + 1) THEN -(I16_MAX + 1)
        ELSE q

\* a * b on u32 for a = a1 * 2^16 + a0 and b = b1 * 2^16 + b0, in 16-bit
\* limbs: the low 32 bits as two halves, and whether bits above them are set.
mul_u32(a1, a0, b1, b0) ==
    LET p0 == a0 * b0
        p1 == a0 * b1 + a1 * b0 + (p0 \div U16_MOD)
    IN  [lower |-> p0 % U16_MOD,
         upper |-> p1 % U16_MOD,
         overflow |-> (p1 \div U16_MOD) # 0 \/ (a1 * b1) # 0]

\* The word of a sample cast straight to u32, which extends the sign.
pack_sign_extended(sample) ==
    mul_u32(IF sample < 0 THEN U16_MOD - 1 ELSE 0, sample % U16_MOD,
            DUP_FACTOR \div U16_MOD, DUP_FACTOR % U16_MOD)

\* (sample as u16 as u32) * 0x10001
pack(sample) ==
    mul_u32(0, sample % U16_MOD, DUP_FACTOR \div U16_MOD, DUP_FACTOR % U16_MOD)

\* The products of a graph output in [-1.0, 1.0], and PackSlack halves
\* beyond them on either side.
ScaledInputs ==
    (-(2 * SAMPLE_SCALE) - PackSlack) .. (2 * SAMPLE_SCALE + PackSlack)

InitPack ==
    /\ Constructed
    /\ enc_a = <<0, 0>>
    /\ enc_b = <<0, 0>>
    /\ enc_out = <<>>
    /\ pk_x \in ScaledInputs
    /\ pk_out = <<>>

\* let sample = (synth.get_sample() * 32767.0) as i16;
\* *s = (sample as u16 as u32) * 0x10001;
Pack ==
    /\ pk_out = <<>>
    /\ pk_out' = [sample |-> to_i16(pk_x), word |-> pack(to_i16(pk_x))]
    /\ UNCHANGED <<synth_vars, panicked, hist_vars, main_vars, cycle_vars, pass_vars,
                   enc_a, enc_b, enc_out, pk_x>>

NextPack == Pack

SpecPack == InitPack /\ [][NextPack]_vars

----------------------------------------------------------------------------
(* Properties                                                              *)

\* note_on(note) and note_off(note) of the voice allocator.
note_on(s, key, octave) == handle_key_change(s, key, octave, TRUE)

note_off(s, key, octave) == handle_key_change(s, key, octave, FALSE)

Assigned(s) == {v \in Voices : s.voice_note[v] # VOICE_UNASSIGNED}

\* The lowest unassigned slot of s (s has one).
LowestFree(s) ==
    CHOOSE v \in Voices :
        /\ s.voice_note[v] = VOICE_UNASSIGNED
        /\ \A w \in Voices : w < v => s.voice_note[w] # VOICE_UNASSIGNED

\* How often slot v was evicted by the steals logged so far.
TimesStolen(v) == Cardinality({k \in 1 .. Len(steal_log) : v \in steal_log[k]})

\* ln(2)/12 as the specification writes the bend ratio: the f32 nearest to
\* it, and its value in units of 2^-31, rounded down.
LN2_OVER_12 == 1030527008

LN2_OVER_12_Q31 == 124043519

\* x - 1.0 in units of 2^-31, for an f32 x in [0.25, 2.0).
MinusOneQ31(bits) ==
    LET x == F32Unpack(bits)
    IN  (x.m * 2^(x.e + 25) - 2^25) * 64

\* C1. Allocation exclusivity: in every reachable state no two voice slots
\* hold the same NoteId.
C1_AllocationExclusive ==
    \A v, w \in Voices :
        (v # w /\ voice_note[v] = voice_note[w]) => voice_note[v] = VOICE_UNASSIGNED

\* C1 witness: the pool is full, a steal has happened, and a note that a voice
\* already holds has been pressed again.
C1_Witness ==
    /\ Assigned(Synth) = Voices
    /\ Len(steal_log) >= 1
    /\ last_kind = "retrigger"

\* C2. Round-robin fairness: the cursor is the number of steals so far modulo
\* VOICE_COUNT, the k-th steal (counting from 0) evicts exactly slot
\* k mod VOICE_COUNT, no voice is stolen a second time before every voice was
\* stolen once, and a call moves the cursor (by one) if and only if it steals.
C2_RoundRobin ==
    /\ next_voice = Len(steal_log) % VOICE_COUNT
    /\ \A k \in 1 .. Len(steal_log) : steal_log[k] = {(k - 1) % VOICE_COUNT}
    /\ \A v, w \in Voices : TimesStolen(v) <= TimesStolen(w) + 1
    /\ \A key \in Keys, octave \in Octaves, pressed \in BOOLEAN :
          update_key(Synth, key, octave, pressed).next_voice =
              IF KindOf(Synth, key, octave, pressed) = "steal"
              THEN (next_voice + 1) % VOICE_COUNT
              ELSE next_voice
    /\ \A bend \in BendInputs :
          set_pitch_bend(Synth, bend).synth.next_voice = next_voice

\* C2 witness: the steal after a full turn of the cursor has happened, so
\* slot 0 was evicted a second time and the cursor stands at 1.
C2_Witness ==
    /\ Len(steal_log) = VOICE_COUNT + 1
    /\ last_kind = "steal"
    /\ next_voice = 1
    /\ TimesStolen(0) = 2

\* The calls of the specification's scenario: (key, pressed), all in octave 0.
ScenarioCalls ==
    <<<<0, TRUE>>, <<1, TRUE>>, <<2, TRUE>>, <<3, TRUE>>, <<4, TRUE>>, <<5, TRUE>>,
      <<6, TRUE>>, <<7, TRUE>>, <<1, FALSE>>, <<8, TRUE>>>>

RECURSIVE AfterCalls(_)
\* The synth after the first n calls of the scenario on a new synth.
AfterCalls(n) ==
    IF n = 0 THEN new
    ELSE update_key(AfterCalls(n - 1), ScenarioCalls[n][1], 0, ScenarioCalls[n][2])

ScenarioHolds ==
    /\ AfterCalls(VOICE_COUNT).voice_note = [v \in Voices |-> v]
    /\ AfterCalls(VOICE_COUNT).next_voice = 0
    /\ AfterCalls(8).voice_note = [v \in Voices |-> IF v = 0 THEN 7 ELSE v]
    /\ AfterCalls(8).next_voice = 1
    /\ AfterCalls(9).voice_note = AfterCalls(8).voice_note
    /\ AfterCalls(9).gates[1] = 0
    /\ AfterCalls(10).voice_note =
           [v \in Voices |-> IF v = 0 THEN 7 ELSE IF v = 1 THEN 8 ELSE v]
    /\ AfterCalls(10).next_voice = 2

\* C3. Allocation policy: a note_on for a note no voice holds takes the
\* lowest unassigned slot if there is one and leaves the cursor alone;
\* otherwise (also when a released voice exists) it takes the slot at the
\* cursor and advances the cursor by one.  A note_off frees no slot.  The
\* scenario of the specification (VOICE_COUNT = 7) runs as it says.
C3_AllocationPolicy ==
    /\ ScenarioHolds
    /\ \A key \in Keys, octave \in Octaves :
        LET note == encode_note(key, octave)
            on   == note_on(Synth, key, octave)
            off  == note_off(Synth, key, octave)
        IN  /\ off.voice_note = voice_note
            /\ ~Holds(Synth, note) =>
                  IF HasFree(Synth)
                  THEN /\ on.voice_note =
                             [voice_note EXCEPT ![LowestFree(Synth)] = note]
                       /\ on.next_voice = next_voice
                  ELSE /\ on.voice_note = [voice_note EXCEPT ![next_voice] = note]
                       /\ on.next_voice = (next_voice + 1) % VOICE_COUNT

\* C3 witness: the scenario of the specification up to renaming of the notes:
\* seven presses filled slots 0..6, an eighth stole slot 0, and after a
\* release the next new note stole slot 1 (cursor 2) while a released voice
\* was still assigned.
C3_Witness ==
    /\ last_kind = "steal"
    /\ steal_log = <<{0}, {1}>>
    /\ next_voice = 2
    /\ \E v \in Voices : gates[v] = 0 /\ voice_note[v] # VOICE_UNASSIGNED

\* C4. Retrigger idempotence: a note_on for a note some voice holds changes
\* nothing but that voice's gate, which becomes high, and a second such
\* note_on changes nothing more.
C4_RetriggerIdempotent ==
    \A key \in Keys, octave \in Octaves :
        LET note == encode_note(key, octave)
            on   == note_on(Synth, key, octave)
        IN  Holds(Synth, note) =>
              /\ \E v \in Voices :
                    /\ voice_note[v] = note
                    /\ on = [Synth EXCEPT !.gates[v] = 1]
              /\ note_on(on, key, octave) = on

\* C4 witness: a key was released and pressed again while its voice still
\* held the note, after the pool had seen a steal and a bend.
C4_Witness ==
    /\ last_kind = "retrigger"
    /\ pitch_bend # RATIO_ONE
    /\ Len(steal_log) >= 1
    /\ \E v \in Voices : gates[v] = 0 /\ voice_note[v] # VOICE_UNASSIGNED

\* C5. note_off lowers the gate of the voice that holds the note and changes
\* nothing else (the voice stays assigned); if no voice holds the note, the
\* state is unchanged.
C5_NoteOffFrame ==
    \A key \in Keys, octave \in Octaves :
        LET note == encode_note(key, octave)
            off  == note_off(Synth, key, octave)
        IN  IF Holds(Synth, note)
            THEN \E v \in Voices :
                    /\ voice_note[v] = note
                    /\ off = [Synth EXCEPT !.gates[v] = 0]
                    /\ off.voice_note[v] = note
            ELSE off = Synth

\* C5 witness: a release has lowered the gate of a voice that is still
\* assigned, in a full pool.
C5_Witness ==
    /\ last_kind = "release"
    /\ Assigned(Synth) = Voices
    /\ \E v \in Voices : gates[v] = 0 /\ \E w \in Voices : gates[w] = 1

\* C6. A set_pitch_bend with a bend outside [-12, 12] is rejected before any
\* mutation: the step that raises the panic leaves the bend ratio and every
\* voice's frequency, base frequency, gate, note and the cursor as they were.
C6_BendRejected ==
    [][(panicked' /\ ~panicked) =>
          /\ last_kind' = "bend_rejected"
          /\ Synth' = Synth]_vars

\* C6 witness: a bend was rejected while voices were assigned and the ratio
\* was not the default.
C6_Witness ==
    /\ panicked
    /\ last_kind = "bend_rejected"
    /\ pitch_bend # RATIO_ONE
    /\ Assigned(Synth) # {}

\* C7. For a legal bend, set_pitch_bend sets the ratio to 1 + bend * ln2/12
\* (the f32 sum of 1.0 and the f32 product, which is within 2^-23 of the
\* real value) and the frequency of every assigned voice to the f32 product
\* base_frequency * ratio, and
\* leaves the frequency of every unassigned voice, every base frequency, gate
\* and note, and the cursor unchanged.
C7_BendApplied ==
    \A bend \in (-BEND_LIMIT) .. BEND_LIMIT :
        LET r == set_pitch_bend(Synth, bend)
            ratio == F32Pack(F32Add(F32Unpack(RATIO_ONE),
                                    F32Mul(F32FromInt(bend), F32Unpack(LN2_OVER_12))))
            error == MinusOneQ31(r.synth.pitch_bend) - bend * LN2_OVER_12_Q31
        IN  /\ ~r.panic
            /\ r.synth.pitch_bend = ratio
            /\ error > -256 /\ error < 256
            /\ \A v \in Voices :
                  r.synth.freqs[v] =
                      IF voice_note[v] # VOICE_UNASSIGNED
                      THEN FMul(base_freqs[v], ratio)
                      ELSE freqs[v]
            /\ r.synth.base_freqs = base_freqs
            /\ r.synth.gates = gates
            /\ r.synth.voice_note = voice_note
            /\ r.synth.next_voice = next_voice
            /\ r.synth.key_states = key_states

\* C7 witness: a legal bend away from the default has been applied while
\* some voices were assigned (one of them released) and some were not.
C7_Witness ==
    /\ last_kind = "bend"
    /\ pitch_bend = 1071167756
    /\ \E v \in Voices :
          /\ voice_note[v] # VOICE_UNASSIGNED
          /\ gates[v] = 0
          /\ freqs[v] = FMul(base_freqs[v], pitch_bend)
          /\ freqs[v] # FMul(base_freqs[v], RATIO_ONE)
    /\ \E v \in Voices : voice_note[v] = VOICE_UNASSIGNED /\ freqs[v] = FZero

\* C8. Event determinism: whenever update_key would emit an event for a key,
\* its polarity differs from that of the last event emitted for the key, and
\* the first event of a key is a press; a second update_key with the same
\* level emits no event and changes no state.
C8_EventsAlternate ==
    \A key \in Keys, octave \in Octaves, pressed \in BOOLEAN :
        LET once == update_key(Synth, key, octave, pressed)
        IN  /\ key_changed(Synth, key, octave, pressed) =>
                  IF pressed
                  THEN last_event[octave][key] \in {"none", "release"}
                  ELSE last_event[octave][key] = "press"
            /\ ~key_changed(once, key, octave, pressed)
            /\ update_key(once, key, octave, pressed) = once

\* C8 witness: some key has gone press, release, press.
C8_Witness ==
    /\ last_kind = "retrigger"
    /\ \E key \in Keys, octave \in Octaves :
          /\ last_event[octave][key] = "press"
          /\ key_states[octave][key]
          /\ \E v \in Voices :
                voice_note[v] = encode_note(key, octave) /\ gates[v] = 1

\* C9. Buffer alternation: the buffer handed to the transfer of one cycle is
\* the buffer filled in the cycle before, the buffer filled in one cycle is
\* the buffer handed to the transfer of the cycle before, and within a cycle
\* the two differ.
C9_BufferAlternation ==
    /\ (cur_sent # NoBuffer /\ cur_filled # NoBuffer) => cur_sent # cur_filled
    /\ (prev_sent # NoBuffer /\ cur_sent # NoBuffer) =>
          cur_sent = prev_filled /\ cur_sent # prev_sent
    /\ (prev_sent # NoBuffer /\ cur_filled # NoBuffer) =>
          cur_filled = prev_sent /\ cur_filled # prev_filled
    /\ pc \in {"check", "enable", "read", "disable", "fill", "await", "swap"} =>
          cur_sent = front_buffer
    /\ pc \in {"await", "swap"} => cur_filled = back_buffer

\* C9 witness: a cycle that follows two completed transfers has handed over
\* the buffer it filled two cycles ago and fills the other one.
C9_Witness ==
    /\ prev_sent = "first"
    /\ prev_filled = "second"
    /\ cur_sent = "second"
    /\ cur_filled = "first"
    /\ pc = "await"

InFlight == {inflight[k] : k \in 1 .. Len(inflight)}

\* C10. Buffer exclusivity: the buffer the fill loop writes is never one a
\* transfer in flight reads, every transfer in flight reads the front buffer,
\* which is not written while it is read, a transfer is started only on a
\* buffer whose fill is not under way, and at most one transfer is in flight.
C10_BufferExclusive ==
    /\ Len(inflight) <= 1
    /\ back_buffer # front_buffer
    /\ \A b \in InFlight : b = front_buffer /\ b # back_buffer
    /\ \A b \in InFlight : fresh[b] = 0
    /\ pc = "fill" => back_buffer \notin InFlight
    /\ pc = "write" => fresh[front_buffer] \in {0, BUFFER_SIZE}

\* C10 witness: the fill loop is half way through the back buffer while the
\* transfer of the front buffer is in flight, after an earlier swap.
C10_Witness ==
    /\ pc = "fill"
    /\ fill_i = BUFFER_SIZE \div 2
    /\ fresh[back_buffer] = fill_i
    /\ inflight = <<front_buffer>>
    /\ prev_sent # NoBuffer

\* The number of update_key calls a scan pass makes before the one for key of
\* octave.
CallsBefore(octave, key) == octave * KEY_COUNT + key

\* C11 as stated: the events of a scan pass over all octaves reach the voice
\* allocator in strictly ascending key index.  It fails: a pass that finds
\* key 5 of octave 0 and key 2 of octave 1 changed applies the event of key 5
\* first.
C11_KeyIndexOrder ==
    \A m, n \in 1 .. Len(pass_events) :
        m < n => pass_events[m][2] < pass_events[n][2]

\* C11, amended. Scan order: the update_key calls of a scan pass are made
\* octave by octave in ascending octave and, within an octave, in ascending
\* key index, so of two events of a pass the one of the lower octave reaches
\* the voice allocator first and, within one octave, the one of the lower key
\* index; each event comes from a call already made, and a pass makes the
\* calls for every key of every octave.
C11_ScanOrder ==
    /\ \A n \in 1 .. Len(pass_calls) :
          pass_calls[n] = <<(n - 1) \div KEY_COUNT, (n - 1) % KEY_COUNT>>
    /\ \A m, n \in 1 .. Len(pass_events) :
          m < n =>
              \/ pass_events[m][1] < pass_events[n][1]
              \/ /\ pass_events[m][1] = pass_events[n][1]
                 /\ pass_events[m][2] < pass_events[n][2]
    /\ \A n \in 1 .. Len(pass_events) :
          <<pass_events[n][1], pass_events[n][2]>>
              \in {pass_calls[k] : k \in 1 .. Len(pass_calls)}
    /\ pc = "read" => Len(pass_calls) = CallsBefore(scan_octave, scan_key)
    /\ (pc = "disable" /\ scan_octave = OCTAVE_COUNT - 1) =>
          Len(pass_calls) = OCTAVE_COUNT * KEY_COUNT

\* C11 witness: a pass has made all its calls and three of them were events:
\* the release of key 5 and the press of key 11 of octave 0, in that order,
\* and then the press of key 2 of octave 1.
C11_Witness ==
    /\ pc = "disable"
    /\ scan_octave = OCTAVE_COUNT - 1
    /\ Len(pass_calls) = OCTAVE_COUNT * KEY_COUNT
    /\ pass_events = <<<<0, 5, FALSE>>, <<0, 11, TRUE>>, <<1, 2, TRUE>>>>
    /\ prev_sent # NoBuffer

ActiveLines == {o \in Octaves : ~octave_en[o]}

\* C12. Octave multiplexing: at most one octave-enable line is LOW at any
\* time; while the keys of an octave are read exactly the line of that octave
\* is LOW; a line is driven LOW only when all lines are HIGH and the keys of
\* all lower octaves have been read, and it is still the only LOW line when
\* the last key of its octave has been read; outside a scan pass every line
\* is HIGH.
C12_OctaveMultiplexing ==
    /\ Cardinality(ActiveLines) <= 1
    /\ pc = "read" => ActiveLines = {scan_octave}
    /\ pc = "disable" =>
          /\ ActiveLines = {scan_octave}
          /\ Len(pass_calls) = (scan_octave + 1) * KEY_COUNT
    /\ pc = "enable" =>
          /\ ActiveLines = {}
          /\ Len(pass_calls) = scan_octave * KEY_COUNT
    /\ pc \in {"write", "check", "fill", "await", "swap"} => ActiveLines = {}
    /\ \A n \in 1 .. Len(pass_calls) : pass_calls[n][1] <= scan_octave

\* C12 witness: the sixth key of the third octave is about to be read, after
\* two octaves were enabled, read and disabled.
C12_Witness ==
    /\ pc = "read"
    /\ scan_octave = 2
    /\ scan_key = 5
    /\ ActiveLines = {2}
    /\ Len(pass_calls) = 2 * KEY_COUNT + 5

\* C13. Note-trigger latency independent of the buffer size: once the scan
\* timer has expired the next scan pass starts before the producer has
\* written a whole buffer of samples, so the wait of a changed pin for its
\* event does not grow with the number of samples filled per cycle.
C13_LatencyIndependentOfBuffer ==
    ~ /\ pc \in {"await", "swap"}
      /\ due_at_fill_start
      /\ fill_i = BUFFER_SIZE
      /\ fresh[back_buffer] = BUFFER_SIZE

\* C14. NoteId encoding: for keys below KEY_COUNT and octaves below
\* OCTAVE_COUNT two different (key, octave) pairs have different NoteIds, the
\* key is the low four bits of the NoteId and the octave the bits above, and
\* no NoteId is VOICE_UNASSIGNED.
C14_EncodingInjective ==
    enc_out # <<>> =>
        /\ (enc_a # enc_b) => enc_out[1] # enc_out[2]
        /\ enc_out[1] % 16 = enc_a[1]
        /\ enc_out[1] \div 16 = enc_a[2]
        /\ enc_out[2] % 16 = enc_b[1]
        /\ enc_out[2] \div 16 = enc_b[2]
        /\ enc_out[1] # VOICE_UNASSIGNED
        /\ enc_out[2] # VOICE_UNASSIGNED
        /\ enc_out[1] \in 0 .. 255
        /\ enc_out[2] \in 0 .. 255

\* C14 witness: the highest key of the highest octave and the key eight below
\* it in the same octave have been encoded.
C14_Witness ==
    /\ enc_a = <<KEY_COUNT - 1, OCTAVE_COUNT - 1>>
    /\ enc_b = <<KEY_COUNT - 9, OCTAVE_COUNT - 1>>
    /\ enc_out = <<59, 51>>

ScanUnderWay == pc \in {"enable", "read", "disable"}

\* C15. Scan gating: a producer cycle begins at most one scan pass; a pass is
\* under way only after the transfer of the cycle was started and before any
\* sample of the back buffer is written; the timer test begins a pass exactly
\* when the scan interval has elapsed, and otherwise goes to the first sample
\* with key states, voices and the last-scan timestamp as they were; key
\* states and voices change only while a pass reads keys, and the timestamp
\* is taken only by a timer test that passed.
C15_ScanGating ==
    /\ [](scans_in_cycle <= 1)
    /\ [](ScanUnderWay =>
            /\ scans_in_cycle = 1
            /\ cur_sent = front_buffer
            /\ cur_filled = NoBuffer
            /\ fresh[back_buffer] = 0
            /\ busy_pin)
    /\ [][pc = "check" =>
            IF elapsed >= SCAN_INTERVAL
            THEN pc' = "enable" /\ scan_octave' = 0 /\ elapsed' = 0
            ELSE /\ pc' = "fill"
                 /\ fill_i' = 0
                 /\ UNCHANGED <<synth_vars, hist_vars, elapsed, scans_in_cycle>>]_<<pc, synth_vars, scans_in_cycle>>
    /\ [][pc = "read"]_<<synth_vars>>
    /\ [][elapsed' < elapsed => pc = "check" /\ elapsed >= SCAN_INTERVAL]_<<elapsed>>
    /\ [][pc' = "enable" /\ scan_octave' = 0 => pc = "check"]_<<pc, scan_octave>>

\* C15 witness: a cycle whose timer test failed has written its first sample
\* with no pass begun, while a key pressed in an earlier pass is still held.
C15_Witness ==
    /\ pc = "fill"
    /\ fill_i = 1
    /\ scans_in_cycle = 0
    /\ elapsed < SCAN_INTERVAL
    /\ key_states[0][0]
    /\ prev_sent # NoBuffer

\* The key and the octave a NoteId stands for.
NoteKey(note) == note % 16

NoteOctave(note) == note \div 16

\* x * 2^n for an f32 x that is not zero: n more in the exponent field.
TimesPow2(bits, n) == bits + n * F32_HIDDEN

\* Every assigned voice of s carries the base frequency of its note and that
\* frequency times the bend ratio of s.
Consistent(s) ==
    \A v \in Assigned(s) :
        /\ s.base_freqs[v] =
              TimesPow2(SEMITONE_FREQS[NoteKey(s.voice_note[v]) + 1],
                        NoteOctave(s.voice_note[v]))
        /\ s.freqs[v] = FMul(s.base_freqs[v], s.pitch_bend)

\* C17. Voice data consistency: in every reachable state each assigned voice
\* has the base frequency SEMITONE_FREQS[key] * 2^octave of its note and the
\* frequency control base * bend ratio; a note_on for a note no voice holds
\* gives the voice it assigns that base frequency, the base times the bend
\* ratio of that moment and a high gate, leaves the ratio alone and keeps all
\* voices consistent, and so does every legal set_pitch_bend.
C17_VoiceDataConsistent ==
    /\ Consistent(Synth)
    /\ \A key \in Keys, octave \in Octaves :
          ~Holds(Synth, encode_note(key, octave)) =>
              LET t == note_on(Synth, key, octave)
                  base == TimesPow2(SEMITONE_FREQS[key + 1], octave)
              IN  /\ Consistent(t)
                  /\ t.pitch_bend = Synth.pitch_bend
                  /\ \E v \in Voices :
                        /\ t.voice_note[v] = encode_note(key, octave)
                        /\ t.base_freqs[v] = base
                        /\ t.freqs[v] = FMul(base, Synth.pitch_bend)
                        /\ t.gates[v] = 1
    /\ \A bend \in BendInputs :
          BendLegal(bend) => Consistent(set_pitch_bend(Synth, bend).synth)

\* C17 witness: with the bend at its upper limit a note of the top octave has
\* stolen a slot and sounds at its bent frequency.
C17_Witness ==
    /\ last_kind = "steal"
    /\ pitch_bend = BendRatio(BEND_LIMIT)
    /\ \E v \in Voices :
          /\ voice_note[v] = encode_note(1, OCTAVE_COUNT - 1)
          /\ gates[v] = 1
          /\ base_freqs[v] = 1149933322
          /\ freqs[v] = FMul(base_freqs[v], pitch_bend)
          /\ freqs[v] = 1156228924
          /\ freqs[v] # FMul(base_freqs[v], RATIO_ONE)

\* C19. No stuck notes: in every reachable state a voice whose gate is high
\* is assigned to a note whose stored key state is pressed; the release of a
\* pressed key leaves low the gate of every voice that holds its note; and a
\* press that steals changes the gate of no voice but the one it gives the
\* new note, whose gate it raises.
C19_NoStuckNotes ==
    /\ \A v \in Voices :
          gates[v] = 1 =>
              /\ voice_note[v] # VOICE_UNASSIGNED
              /\ NoteKey(voice_note[v]) \in Keys
              /\ NoteOctave(voice_note[v]) \in Octaves
              /\ key_states[NoteOctave(voice_note[v])][NoteKey(voice_note[v])]
    /\ \A key \in Keys, octave \in Octaves :
          key_states[octave][key] =>
              LET t == update_key(Synth, key, octave, FALSE)
              IN  \A v \in Voices :
                      voice_note[v] = encode_note(key, octave) => t.gates[v] = 0
    /\ \A key \in Keys, octave \in Octaves :
          KindOf(Synth, key, octave, TRUE) = "steal" =>
              LET t == update_key(Synth, key, octave, TRUE)
              IN  /\ \A v \in Voices :
                        t.gates[v] # gates[v] => t.voice_note[v] = encode_note(key, octave)
                  /\ \A v \in Voices :
                        t.voice_note[v] = encode_note(key, octave) => t.gates[v] = 1

\* C19 witness: a key has just been released and the voice that holds its
\* note is silent, after a steal, while other held notes still sound.
C19_Witness ==
    /\ last_kind = "release"
    /\ Len(steal_log) >= 1
    /\ \E v \in Voices :
          /\ voice_note[v] # VOICE_UNASSIGNED
          /\ gates[v] = 0
          /\ ~key_states[NoteOctave(voice_note[v])][NoteKey(voice_note[v])]
    /\ \E v \in Voices : gates[v] = 1

\* C20. Fresh buffers only: the buffer about to be handed to the sink is,
\* unless it is the first of the run (never written, all zero), the buffer
\* the cycle before filled completely while the other buffer was in
\* transfer; the fill of a cycle is complete when the transfer is awaited;
\* the buffer handed over is not written while the cycle lasts; so no buffer
\* is handed over twice without a complete refill in between.
C20_SentBufferFresh ==
    /\ (pc = "write" /\ prev_sent # NoBuffer) =>
          /\ fresh[front_buffer] = BUFFER_SIZE
          /\ prev_filled = front_buffer
          /\ prev_sent = back_buffer
          /\ prev_sent # front_buffer
    /\ (pc = "write" /\ prev_sent = NoBuffer) =>
          /\ fresh[front_buffer] = 0
          /\ fresh[back_buffer] = 0
    /\ pc \in {"await", "swap"} =>
          /\ fill_i = BUFFER_SIZE
          /\ fresh[back_buffer] = BUFFER_SIZE
          /\ cur_filled = back_buffer
    /\ cur_sent # NoBuffer => fresh[cur_sent] = 0

\* C20 witness: the buffer of the first transfer is about to be handed over a
\* second time, refilled in the cycle that transferred the other buffer.
C20_Witness ==
    /\ pc = "write"
    /\ prev_sent = "first"
    /\ prev_filled = "second"
    /\ front_buffer = "second"
    /\ fresh["second"] = BUFFER_SIZE
    /\ inflight = <<>>

----------------------------------------------------------------------------
(* The producer loop under fair scheduling                                 *)

ReadKeyFair == ReadKeyAmong(MaxPinsFair)

\* A step of the loop of main.
Producer ==
    \/ StartTransfer
    \/ CheckTimer
    \/ EnableOctave
    \/ ReadKeyFair
    \/ DisableOctave
    \/ FillSample
    \/ AwaitTransfer
    \/ SwapBuffers

\* The executor keeps running main while it can take a step, and every
\* transfer in flight is completed by the DMA engine.
NextMainFair ==
    \/ Producer
    \/ DmaComplete
    \/ Tick

SpecMainFair ==
    Init /\ [][NextMainFair]_vars /\ WF_vars(Producer) /\ WF_vars(DmaComplete)

\* C18. The producer cycles forever: when every started transfer completes,
\* a cycle that has started its transfer reaches its swap and the swap leads
\* to the start of the next transfer; the loop can take a step at every
\* point but the wait for the transfer, where it can exactly when no
\* transfer is in flight; and transfers of the first buffer and of the second
\* buffer are each started again and again.
C18_ProducerCyclesForever ==
    /\ [](pc # "await" => ENABLED Producer)
    /\ [](pc = "await" => (ENABLED Producer <=> inflight = <<>>))
    /\ (pc = "check") ~> (pc = "swap")
    /\ (pc = "swap") ~> (pc = "check")
    /\ []<>(pc = "check" /\ cur_sent = "first" /\ inflight = <<"first">>)
    /\ []<>(pc = "check" /\ cur_sent = "second" /\ inflight = <<"second">>)

\* C18 witness: the loop waits for the transfer of the first buffer, still
\* in flight, with the second buffer filled, after an earlier full cycle.
C18_Witness ==
    /\ pc = "await"
    /\ inflight = <<"first">>
    /\ cur_sent = "first"
    /\ cur_filled = "second"
    /\ prev_sent = "second"
    /\ ~ENABLED Producer

\* The 16-bit two's-complement encoding of a signed sample.
TwosComplement16(s) == IF s >= 0 THEN s ELSE s + U16_MOD

\* C21. Sample packing: the product of a graph output in [-1.0, 1.0] and
\* 32767 becomes, with its fraction dropped, a sample in [-32767, 32767]; and
\* for every sample the conversion yields, the DMA word
\* (sample as u16 as u32) * 0x10001 does not overflow 32 bits and has its
\* upper and its lower 16 bits both equal to the two's-complement encoding of
\* the sample.
C21_SamplePacking ==
    pk_out # <<>> =>
        /\ pk_out.sample \in -(I16_MAX + 1) .. I16_MAX
        /\ (pk_x >= -(2 * SAMPLE_SCALE) /\ pk_x <= 2 * SAMPLE_SCALE) =>
              /\ pk_out.sample \in -SAMPLE_SCALE .. SAMPLE_SCALE
              /\ IF pk_x >= 0
                 THEN 2 * pk_out.sample <= pk_x /\ pk_x < 2 * pk_out.sample + 2
                 ELSE 2 * pk_out.sample >= pk_x /\ pk_x > 2 * pk_out.sample - 2
        /\ ~pk_out.word.overflow
        /\ pk_out.word.lower = TwosComplement16(pk_out.sample)
        /\ pk_out.word.upper = TwosComplement16(pk_out.sample)
        /\ pk_out.word.upper = pk_out.word.lower
        /\ pk_out.word.lower \in 0 .. (U16_MOD - 1)

\* C21 witness: the product -32766.5 has been converted to the sample -32766
\* and packed into a word with 0x8002 in both halves.
C21_Witness ==
    /\ pk_x = -(2 * SAMPLE_SCALE) + 1
    /\ pk_out # <<>>
    /\ pk_out.sample = -(SAMPLE_SCALE - 1)
    /\ pk_out.word = [lower |-> 32770, upper |-> 32770, overflow |-> FALSE]

=============================================================================
